---- MODULE Spec2Model ----
(***************************************************************************)
(* State-machine model of server.py: a local development HTTP server.      *)
(* main() changes to the script's directory, binds a TCPServer on PORT,    *)
(* prints a banner, tries to open a browser and serves requests one at a   *)
(* time with MyHTTPRequestHandler, a SimpleHTTPRequestHandler whose        *)
(* end_headers adds three CORS headers and whose log_message prints to     *)
(* standard output.  The inherited request handling (parse_request,        *)
(* send_head, translate_path, send_error, ...) is modelled as far as the   *)
(* two overridden methods and main() depend on it.                         *)
(***************************************************************************)
EXTENDS Integers, Sequences, FiniteSets, TLC

(* ------------------------------ bounds --------------------------------- *)

\* Longest request path, in segments.
MaxSegs == 2
\* Requests handled in one run of the server.
MaxRequests == 2

(* --------------------------- program constants ------------------------- *)

PORT == 8000
\* The errno main() compares against ("Address already in use" on macOS/BSD).
ADDR_IN_USE_ERRNO == 48

(* ------------------------------ environment ---------------------------- *)

Platforms == {"darwin", "linux", "windows"}

\* errno of "address already in use" as the platform's bind() reports it.
EADDRINUSE(platform) ==
  CASE platform = "darwin"  -> 48
    [] platform = "linux"   -> 98
    [] platform = "windows" -> 10048

\* errno of "permission denied", another way bind() can fail.
EACCES(platform) == IF platform = "windows" THEN 10013 ELSE 13

\* The directory holding server.py, and the directories it may be started from.
ScriptDir == <<"srv">>
LaunchDirs == {<< >>, ScriptDir}

NUL == "%00"
ParDir == ".."

\* The file system: absolute path -> entry.  /srv is the served root; it has no
\* index.html, /srv/sub has one; /secret.txt lies outside the root.
Files ==
  ( << >>                      :> [kind |-> "dir",  readable |-> TRUE,  bytes |-> << >>] ) @@
  ( <<"secret.txt">>           :> [kind |-> "file", readable |-> TRUE,  bytes |-> <<115, 101>>] ) @@
  ( <<"srv">>                  :> [kind |-> "dir",  readable |-> TRUE,  bytes |-> << >>] ) @@
  ( <<"srv", "data.json">>     :> [kind |-> "file", readable |-> TRUE,  bytes |-> <<123, 125>>] ) @@
  ( <<"srv", "locked.txt">>    :> [kind |-> "file", readable |-> FALSE, bytes |-> <<108>>] ) @@
  ( <<"srv", "sub">>           :> [kind |-> "dir",  readable |-> TRUE,  bytes |-> << >>] ) @@
  ( <<"srv", "sub", "index.html">> :> [kind |-> "file", readable |-> TRUE, bytes |-> <<60, 104>>] )

\* Path segments a request may carry (already percent-decoded).  The root holds
\* no secret.txt: there the name stands for a missing file.
Segments == {ParDir, "sub", "data.json", "locked.txt", "secret.txt", NUL}

RECURSIVE SeqsUpTo(_, _)
SeqsUpTo(S, n) ==
  IF n = 0 THEN {<< >>}
  ELSE LET shorter == SeqsUpTo(S, n - 1)
       IN  shorter \cup {Append(s, x) : s \in {t \in shorter : Len(t) = n - 1}, x \in S}

\* A request path: "/a/b", "a/b", with or without a trailing slash.  The empty
\* segment list is the path "/".
Paths ==
  {p \in [abs : BOOLEAN, segs : SeqsUpTo(Segments, MaxSegs), slash : BOOLEAN] :
     p.segs = << >> => (p.abs /\ p.slash)}

RootPath == [abs |-> TRUE, segs |-> << >>, slash |-> TRUE]

(* ------------------------------ os.path --------------------------------- *)

RECURSIVE Collapse(_, _, _)
\* posixpath.normpath on the segments: "x/.." cancels, ".." at the top of an
\* absolute path is dropped, ".." at the top of a relative path stays.
Collapse(segs, abs, acc) ==
  IF segs = << >> THEN acc
  ELSE LET w == Head(segs)
       IN  IF w # ParDir THEN Collapse(Tail(segs), abs, Append(acc, w))
           ELSE IF acc # << >> /\ acc[Len(acc)] # ParDir
                THEN Collapse(Tail(segs), abs, SubSeq(acc, 1, Len(acc) - 1))
           ELSE IF abs THEN Collapse(Tail(segs), abs, acc)
           ELSE Collapse(Tail(segs), abs, Append(acc, w))

normpath(p) == Collapse(p.segs, p.abs, << >>)

\* How the operating system resolves an absolute path holding ".." segments.
os_resolve(segs) == Collapse(segs, TRUE, << >>)

HasNul(segs) == \E i \in 1..Len(segs) : segs[i] = NUL

\* os.path.isdir / os.path.isfile: False for a missing path and for a path the
\* OS rejects (embedded NUL); a trailing slash on a regular file is no file.
isdir(fp) ==
  /\ ~HasNul(fp.segs)
  /\ os_resolve(fp.segs) \in DOMAIN Files
  /\ Files[os_resolve(fp.segs)].kind = "dir"

isfile(fp) ==
  /\ ~HasNul(fp.segs)
  /\ ~fp.slash
  /\ os_resolve(fp.segs) \in DOMAIN Files
  /\ Files[os_resolve(fp.segs)].kind = "file"

\* open(path, 'rb'): "ok", or the exception it raises.
open(fp) ==
  IF HasNul(fp.segs) THEN "ValueError"
  ELSE IF isfile(fp) /\ Files[os_resolve(fp.segs)].readable THEN "ok"
  ELSE "OSError"

IsPrefix(s, t) == Len(s) <= Len(t) /\ SubSeq(t, 1, Len(s)) = s

(* ------------------------------ requests -------------------------------- *)

Methods == {"GET", "HEAD", "OPTIONS", "POST"}

\* The last word of a request line of three or more words.
Versions == {"HTTP/1.1", "HTTP/2.0", "FOO"}

\* If-Modified-Since against the file's modification time; "newer+inm" also
\* carries If-None-Match, which makes the handler ignore If-Modified-Since.
Validators == {"none", "older", "newer", "newer+inm"}

ClientAddress == "127.0.0.1"

Req(shape, method, path, version, ims, hdrs) ==
  [shape |-> shape, method |-> method, path |-> path, version |-> version,
   ims |-> ims, hdrs |-> hdrs, client |-> ClientAddress]

\* Request lines by shape: longer than 65536 bytes; blank; one word; two words
\* (an HTTP/0.9 simple request); three words; four words.  "hdrs" tells whether
\* the header block exceeds http.client's limits.  A request rejected before
\* its path is looked at is listed with the path "/" only.
Requests ==
  {Req("toolong", "GET", RootPath, "HTTP/1.1", "none", "ok")} \cup
  {Req("empty", "GET", RootPath, "HTTP/1.1", "none", "ok")} \cup
  {Req("oneword", m, RootPath, "HTTP/1.1", "none", "ok") : m \in Methods} \cup
  {Req("simple", "GET", p, "HTTP/0.9", "none", "ok") : p \in Paths} \cup
  {Req("simple", m, RootPath, "HTTP/0.9", "none", "ok") : m \in Methods} \cup
  {Req("full", m, p, "HTTP/1.1", "none", "ok") : m \in Methods, p \in Paths} \cup
  {Req("full", "GET", p, "HTTP/1.1", i, "ok") : p \in Paths, i \in Validators} \cup
  {Req("full", m, RootPath, v, "none", "ok") : m \in Methods, v \in Versions} \cup
  {Req("full", m, RootPath, "HTTP/1.1", "none", "toolong") : m \in Methods} \cup
  {Req("extra", m, RootPath, v, "none", "ok") : m \in Methods, v \in Versions}

\* Which print() call of a request raises (a closed pipe, a line standard
\* output cannot encode): none, the first, or the second.
PrintFaults == {"none", "first", "second"}

(* ---------------------- MyHTTPRequestHandler ---------------------------- *)

CORSHeaders ==
  << <<"Access-Control-Allow-Origin", "*">>,
     <<"Access-Control-Allow-Methods", "GET, OPTIONS">>,
     <<"Access-Control-Allow-Headers", "*">> >>

\* A handler as socketserver constructs it for one connection: nothing parsed,
\* nothing buffered, nothing written, "directory" taken from os.getcwd().
NewHandler(req, fault, directory) ==
  [client |-> req.client, directory |-> directory, fault |-> fault,
   command |-> "", path |-> RootPath, request_version |-> "HTTP/0.9", ims |-> "none",
   parsed |-> FALSE,
   bufStatus |-> 0, buf |-> << >>,
   written |-> FALSE, statusLine |-> 0, headers |-> << >>, body |-> << >>,
   code |-> 0, log |-> << >>, raised |-> "none",
   touched |-> FALSE, opened |-> {}, f |-> << >>, hasFile |-> FALSE]

Raised(h) == h.raised # "none"

PrintRaises(h) ==
  \/ h.fault = "first" /\ Len(h.log) = 0
  \/ h.fault = "second" /\ Len(h.log) = 1

\* log_message: print "[<client address>] <summary>"; no try/except around it.
log_message(h, kind, code) ==
  IF Raised(h) THEN h
  ELSE IF PrintRaises(h) THEN [h EXCEPT !.raised = "PrintError"]
  ELSE [h EXCEPT !.log = Append(@, [address |-> h.client, kind |-> kind, code |-> code])]

log_request(h, code) == log_message(h, "request", code)
log_error(h, code) == log_message(h, "error", code)

\* send_response_only / send_header: buffered, and skipped for HTTP/0.9.
send_response_only(h, code) ==
  IF Raised(h) \/ h.request_version = "HTTP/0.9" THEN h
  ELSE [h EXCEPT !.bufStatus = code]

send_header(h, keyword, value) ==
  IF Raised(h) \/ h.request_version = "HTTP/0.9" THEN h
  ELSE [h EXCEPT !.buf = Append(@, <<keyword, value>>)]

\* BaseHTTPRequestHandler.end_headers: flush the buffer to the socket.
base_end_headers(h) ==
  IF Raised(h) \/ h.request_version = "HTTP/0.9" THEN h
  ELSE [h EXCEPT !.written = TRUE, !.statusLine = h.bufStatus,
                 !.headers = @ \o h.buf, !.buf = << >>, !.bufStatus = 0]

\* end_headers that never calls the base class's end_headers.
end_headers_without_super(h) ==
  send_header(
    send_header(
      send_header(h, CORSHeaders[1][1], CORSHeaders[1][2]),
      CORSHeaders[2][1], CORSHeaders[2][2]),
    CORSHeaders[3][1], CORSHeaders[3][2])

\* end_headers with the third send_header left out.
end_headers_without_allow_headers(h) ==
  base_end_headers(
    send_header(
      send_header(h, CORSHeaders[1][1], CORSHeaders[1][2]),
      CORSHeaders[2][1], CORSHeaders[2][2]))

\* MyHTTPRequestHandler.end_headers: the three CORS headers, then the base's.
end_headers(h) ==
  base_end_headers(
    send_header(
      send_header(
        send_header(h, CORSHeaders[1][1], CORSHeaders[1][2]),
        CORSHeaders[2][1], CORSHeaders[2][2]),
      CORSHeaders[3][1], CORSHeaders[3][2]))

send_response(h, code) ==
  LET h1 == log_request(h, code)
      h2 == IF Raised(h1) THEN h1 ELSE [h1 EXCEPT !.code = code]
  IN  send_header(send_header(send_response_only(h2, code), "Server", "SimpleHTTP"),
                  "Date", "now")

write(h, bytes) ==
  IF Raised(h) \/ bytes = << >> THEN h
  ELSE [h EXCEPT !.written = TRUE, !.body = @ \o bytes]

ErrorPage(code) == <<60, 33, code % 256>>
ListingPage == <<60, 117, 108>>

ErrorHasBody(code) == code >= 200 /\ code \notin {204, 205, 304}

\* send_error: two log lines, status line and headers, then the error page
\* (left out for HEAD and for codes that carry no body).
send_error(h, code) ==
  LET h1 == send_header(send_response(log_error(h, code), code), "Connection", "close")
      h2 == IF ErrorHasBody(code)
            THEN send_header(send_header(h1, "Content-Type", "text/html;charset=utf-8"),
                             "Content-Length", "n")
            ELSE h1
      h3 == end_headers(h2)
  IN  IF h.command # "HEAD" /\ ErrorHasBody(code) THEN write(h3, ErrorPage(code)) ELSE h3

\* parse_request: the handler after parsing, "parsed" telling whether the
\* request goes on to its do_<command> method.
parse_request(h, req) ==
  LET words   == CASE req.shape = "empty"   -> 0
                   [] req.shape = "oneword" -> 1
                   [] req.shape = "simple"  -> 2
                   [] req.shape = "full"    -> 3
                   [] OTHER                 -> 4
      h0      == [h EXCEPT !.command = "", !.request_version = "HTTP/0.9"]
      hv      == IF words >= 3 THEN [h0 EXCEPT !.request_version = req.version] ELSE h0
      hc      == [hv EXCEPT !.command = req.method, !.path = req.path, !.ims = req.ims]
  IN  IF words = 0 THEN h0
      ELSE IF words >= 3 /\ req.version = "FOO" THEN send_error(h0, 400)
      ELSE IF words >= 3 /\ req.version = "HTTP/2.0" THEN send_error(h0, 505)
      ELSE IF ~(2 <= words /\ words <= 3) THEN send_error(hv, 400)
      ELSE IF words = 2 /\ req.method # "GET" THEN send_error(hv, 400)
      ELSE IF req.hdrs = "toolong" THEN send_error(hc, 431)
      ELSE [hc EXCEPT !.parsed = TRUE]

\* translate_path: the local path of a request path.  normpath, then every
\* ".." word left is ignored, then the words are joined to the directory.
translate_path(directory, p) ==
  [segs  |-> directory \o SelectSeq(normpath(p), LAMBDA w : w # ParDir),
   slash |-> p.slash]

guess_type(fp) ==
  LET name == IF fp.segs = << >> THEN "" ELSE fp.segs[Len(fp.segs)]
  IN  CASE name = "data.json"  -> "application/json"
        [] name = "index.html" -> "text/html"
        [] name \in {"locked.txt", "secret.txt"} -> "text/plain"
        [] OTHER -> "application/octet-stream"

\* list_directory: 404 when the directory cannot be listed, else a generated page.
list_directory(h, fp) ==
  IF ~Files[os_resolve(fp.segs)].readable THEN send_error(h, 404)
  ELSE LET hl == [h EXCEPT !.opened = @ \cup {os_resolve(fp.segs)}]
           h1 == end_headers(
                   send_header(
                     send_header(send_response(hl, 200), "Content-type", "text/html; charset=utf-8"),
                     "Content-Length", "n"))
       IN  IF Raised(h1) THEN h1
           ELSE [h1 EXCEPT !.f = ListingPage, !.hasFile = TRUE]

\* send_head: the status line and headers of a GET or HEAD; "f" is the open
\* file (or listing) left for the caller, if any.
send_head(h) ==
  LET asked == translate_path(h.directory, h.path)
      ht    == [h EXCEPT !.touched = TRUE]
      index == [segs |-> Append(asked.segs, "index.html"), slash |-> FALSE]
      fp    == IF isdir(asked) /\ isfile(index) THEN index ELSE asked
      real  == os_resolve(fp.segs)
  IN  IF isdir(asked) /\ ~h.path.slash
        THEN end_headers(
               send_header(send_header(send_response(ht, 301), "Location", "path/"),
                           "Content-Length", "0"))
      ELSE IF isdir(asked) /\ ~isfile(index) THEN list_directory(ht, asked)
      ELSE IF fp.slash THEN send_error(ht, 404)
      ELSE IF open(fp) = "OSError" THEN send_error(ht, 404)
      ELSE IF open(fp) = "ValueError" THEN [ht EXCEPT !.raised = "ValueError"]
      ELSE LET ho == [ht EXCEPT !.opened = @ \cup {real}]
           IN  IF h.ims = "newer" THEN end_headers(send_response(ho, 304))
               ELSE LET h1 == end_headers(
                                send_header(
                                  send_header(
                                    send_header(send_response(ho, 200),
                                                "Content-type", guess_type(fp)),
                                    "Content-Length", "n"),
                                  "Last-Modified", "mtime"))
                    IN  IF Raised(h1) THEN h1
                        ELSE [h1 EXCEPT !.f = Files[real].bytes, !.hasFile = TRUE]

\* do_GET that never copies the file.
do_GET_without_copy(h) == send_head(h)

\* do_GET: send_head, then copy the file to the socket.
do_GET(h) ==
  LET h1 == send_head(h)
  IN  IF h1.hasFile THEN write(h1, h1.f) ELSE h1

\* do_HEAD: send_head only.
do_HEAD(h) == send_head(h)

\* handle_one_request: one request line to one response (or none).
handle_one_request(h, req) ==
  IF req.shape = "toolong"
    THEN send_error([h EXCEPT !.command = "", !.request_version = ""], 414)
  ELSE LET hp == parse_request(h, req)
       IN  IF ~hp.parsed THEN hp
           ELSE IF hp.command = "GET" THEN do_GET(hp)
           ELSE IF hp.command = "HEAD" THEN do_HEAD(hp)
           ELSE send_error(hp, 501)

(* ------------------------------- main() --------------------------------- *)

VARIABLES
  pc,          \* where main() is: "start", "chdir", "bound", "banner", "serving",
               \* "handled" (a request's handler has finished), "exited"
  bindErrno,   \* errno of the OSError bind() raised, 0 if it raised none
  bindDenied,  \* whether bind() fails for a reason other than a busy port
  logFaults,   \* whether print() may raise while a request is logged
  cwd,         \* the process's current directory
  portHolder,  \* who holds PORT: "none", "other" (another process), "self"
  listening,   \* whether this process's listening socket is open
  console,     \* what the process has printed, requests' log lines aside
  exitStatus,  \* the process's exit status, -1 while it runs
  exitAt,      \* where the process ended: "bind", or the value of pc at CTRL+C
  browser,     \* "notyet", or "tried" once webbrowser.open was called
  served,      \* requests handled so far
  failed,      \* whether a request handled earlier failed
  opened,      \* every file opened, and directory listed, for a request
  last         \* the request being handled and its handler as it finished

vars == <<pc, bindErrno, bindDenied, logFaults, cwd, portHolder, listening, console,
          exitStatus, exitAt, browser, served, failed, opened, last>>

Msg(kind) == [kind |-> kind, port |-> PORT]

NoRequest == Req("empty", "GET", RootPath, "HTTP/1.1", "none", "ok")

NoLast == [req |-> NoRequest, fault |-> "none", h |-> NewHandler(NoRequest, "none", ScriptDir)]

InitWith(faults) ==
  /\ pc = "start"
  /\ bindErrno = 0
  /\ bindDenied \in BOOLEAN
  /\ logFaults \in faults
  /\ cwd \in LaunchDirs
  /\ portHolder \in {"none", "other"}
  /\ listening = FALSE
  /\ console = {}
  /\ exitStatus = -1
  /\ exitAt = "none"
  /\ browser = "notyet"
  /\ served = 0
  /\ opened = {}
  /\ failed = FALSE
  /\ last = NoLast

\* Standard output accepts every line.
Init == InitWith({FALSE})

\* print() may raise while a request is logged.
InitLogFault == InitWith({TRUE})

\* main() without the os.chdir: the launch directory is served.
Chdir_skipped ==
  /\ pc = "start"
  /\ pc' = "chdir"
  /\ UNCHANGED <<bindErrno, bindDenied, logFaults, cwd, portHolder, listening, console,
                 exitStatus, exitAt, browser, served, failed, opened, last>>

\* os.chdir(os.path.dirname(os.path.abspath(__file__)))
Chdir ==
  /\ pc = "start"
  /\ cwd' = ScriptDir
  /\ pc' = "chdir"
  /\ UNCHANGED <<bindErrno, bindDenied, logFaults, portHolder, listening, console,
                 exitStatus, exitAt, browser, served, failed, opened, last>>

\* socketserver.TCPServer(("", PORT), Handler) succeeds: the socket listens.
BindOK ==
  /\ pc = "chdir"
  /\ portHolder = "none"
  /\ ~bindDenied
  /\ portHolder' = "self"
  /\ listening' = TRUE
  /\ pc' = "bound"
  /\ UNCHANGED <<bindErrno, bindDenied, logFaults, cwd, console, exitStatus, exitAt,
                 browser, served, failed, opened, last>>

\* except OSError as e: the message printed and the exit status.  errno 48 gets
\* the port message and sys.exit(1); anything else is re-raised, which ends the
\* process with a traceback and status 1.
on_OSError(errno) ==
  IF errno = ADDR_IN_USE_ERRNO
    THEN [message |-> Msg("port-in-use"), status |-> 1]
    ELSE [message |-> [kind |-> "traceback-OSError", port |-> 0], status |-> 1]

\* TCPServer(...) raises OSError: the port is held, or bind() is refused, with
\* the errno of the platform the script runs on.
BindFail ==
  /\ pc = "chdir"
  /\ portHolder = "other" \/ bindDenied
  /\ \E platform \in Platforms :
       LET errno == IF portHolder = "other" THEN EADDRINUSE(platform) ELSE EACCES(platform)
           out   == on_OSError(errno)
       IN  /\ bindErrno' = errno
           /\ console' = console \cup {out.message}
           /\ exitStatus' = out.status
  /\ exitAt' = "bind"
  /\ pc' = "exited"
  /\ UNCHANGED <<bindDenied, logFaults, cwd, portHolder, listening,
                 browser, served, failed, opened, last>>

\* The banner: port, directory, URL, "Premi CTRL+C per fermare il server".
Banner ==
  /\ pc = "bound"
  /\ console' = console \cup {Msg("banner")}
  /\ pc' = "banner"
  /\ UNCHANGED <<bindErrno, bindDenied, logFaults, cwd, portHolder, listening,
                 exitStatus, exitAt, browser, served, failed, opened, last>>

\* webbrowser.open(...) inside try/except: pass: whether it opens, returns False
\* or raises changes nothing; then serve_forever() starts.
OpenBrowser ==
  /\ pc = "banner"
  /\ browser' = "tried"
  /\ pc' = "serving"
  /\ UNCHANGED <<bindErrno, bindDenied, logFaults, cwd, portHolder, listening, console,
                 exitStatus, exitAt, served, failed, opened, last>>

\* One connection accepted in serve_forever: finish_request constructs a new
\* handler, which handles one request.
HandleRequest ==
  /\ pc = "serving"
  /\ served < MaxRequests
  /\ \E req \in Requests, fault \in (IF logFaults THEN PrintFaults ELSE {"none"}) :
       LET h == handle_one_request(NewHandler(req, fault, cwd), req)
       IN  /\ last' = [req |-> req, fault |-> fault, h |-> h]
           /\ opened' = opened \cup h.opened
  /\ pc' = "handled"
  /\ UNCHANGED <<bindErrno, bindDenied, logFaults, cwd, portHolder, listening, console,
                 exitStatus, exitAt, browser, served, failed>>

\* A serve loop that lets a handler's exception through: the server ends.
after_request_reraising(h) ==
  [pc |-> IF Raised(h) THEN "exited" ELSE "serving",
   printed |-> IF Raised(h) THEN {[kind |-> "traceback-request", port |-> 0]} ELSE {}]

\* serve_forever after a request: an exception of the handler goes to
\* handle_error (a traceback on standard error) and the loop goes on.
after_request(h) ==
  [pc |-> "serving",
   printed |-> IF Raised(h) THEN {[kind |-> "traceback-request", port |-> 0]} ELSE {}]

\* A request that did not end in a 2xx or 3xx response.
Failed(h) == Raised(h) \/ ~h.parsed \/ h.code >= 400

\* The request is over: handle_error if the handler raised, shutdown_request,
\* and the handler is dropped.
CloseRequest ==
  /\ pc = "handled"
  /\ pc' = after_request(last.h).pc
  /\ console' = console \cup after_request(last.h).printed
  /\ served' = served + 1
  /\ failed' = (failed \/ Failed(last.h))
  /\ last' = NoLast
  /\ UNCHANGED <<bindErrno, bindDenied, logFaults, cwd, portHolder, listening,
                 exitStatus, exitAt, browser, opened>>

\* What main() does with a KeyboardInterrupt: no except clause names it, so it
\* leaves main() uncaught: a traceback, and the process ends by SIGINT (130).
on_KeyboardInterrupt ==
  [message |-> [kind |-> "traceback-KeyboardInterrupt", port |-> 0], status |-> 130]

\* CTRL+C, between two requests or during startup.  Inside the with block the
\* server socket is closed on the way out.
Interrupt ==
  /\ pc \notin {"handled", "exited"}
  /\ listening' = FALSE
  /\ portHolder' = IF listening THEN "none" ELSE portHolder
  /\ console' = console \cup {on_KeyboardInterrupt.message}
  /\ exitStatus' = on_KeyboardInterrupt.status
  /\ exitAt' = pc
  /\ pc' = "exited"
  /\ UNCHANGED <<bindErrno, bindDenied, logFaults, cwd, browser, served, failed, opened, last>>

Next ==
  \/ Chdir
  \/ BindOK
  \/ BindFail
  \/ Banner
  \/ OpenBrowser
  \/ HandleRequest
  \/ CloseRequest
  \/ Interrupt

Spec == Init /\ [][Next]_vars

SpecLogFault == InitLogFault /\ [][Next]_vars

(* ------------------------------- claims --------------------------------- *)

\* The handler of the request just handled, and what the claims say about it.
Handling == pc = "handled"

HasCORS(headers) ==
  \A i \in 1..Len(CORSHeaders) : \E j \in 1..Len(headers) : headers[j] = CORSHeaders[i]

\* The request was parsed and dispatched to do_GET.
ParsedGet == Handling /\ last.h.parsed /\ last.h.command = "GET"

\* The local path the request path stands for, under the served root.
Resolved == translate_path(ScriptDir, last.req.path)

ResolvedEntry == Files[os_resolve(Resolved.segs)]

SecretBytes == Files[<<"secret.txt">>].bytes

\* C1 (as stated): every response sent, whatever the method and the outcome,
\* carries the three CORS headers.
C1_EveryResponseHasCORS ==
  (Handling /\ last.h.written) => HasCORS(last.h.headers)

\* C1 (amended): every response with a status line and a header block, which is
\* every response to a request whose version is not HTTP/0.9, carries the three
\* CORS headers; a response to an HTTP/0.9 request is a bare body.
C1_HeaderBlockHasCORS ==
  (Handling /\ last.h.written) =>
     IF last.h.request_version = "HTTP/0.9"
       THEN last.h.statusLine = 0 /\ last.h.headers = << >>
       ELSE last.h.statusLine = last.h.code /\ last.h.code # 0 /\ HasCORS(last.h.headers)

C1_Witness ==
  /\ Handling
  /\ last.h.written
  /\ last.h.statusLine = 404
  /\ HasCORS(last.h.headers)

\* C2: OPTIONS on any path is answered 200 with an empty body and the CORS
\* headers, without the file system being read.
C2_OptionsAnswered200 ==
  (Handling /\ last.req.shape = "full" /\ last.req.method = "OPTIONS"
     /\ last.req.version = "HTTP/1.1" /\ last.req.hdrs = "ok") =>
       /\ last.h.statusLine = 200
       /\ last.h.body = << >>
       /\ HasCORS(last.h.headers)
       /\ ~last.h.touched

\* C3 (as stated, on the files that can be read and the requests whose log line
\* is printed): GET of a path that resolves to an existing regular file under
\* the root returns 200 and the file's bytes.
C3_GetFileReturnsContents ==
  (ParsedGet /\ isfile(Resolved) /\ ResolvedEntry.readable /\ last.fault = "none") =>
     /\ last.h.code = 200
     /\ last.h.body = ResolvedEntry.bytes

\* C3 (amended): GET of a path that resolves to an existing, readable regular
\* file under the root returns the file's bytes with response code 200 (on the
\* status line unless the request is HTTP/0.9), except that a GET whose
\* If-Modified-Since is not older than the file (and that has no If-None-Match)
\* returns 304 and no body.  (A print() that raises while the request is
\* logged leaves it with no response at all: C10.)
C3_GetReadableFile ==
  (ParsedGet /\ isfile(Resolved) /\ ResolvedEntry.readable) =>
     IF last.h.raised = "PrintError"
       THEN ~last.h.written /\ last.fault = "first"
     ELSE IF last.req.ims = "newer"
       THEN last.h.code = 304 /\ last.h.body = << >>
       ELSE /\ last.h.code = 200
            /\ last.h.request_version # "HTTP/0.9" => last.h.statusLine = 200
            /\ last.h.body = ResolvedEntry.bytes
            /\ last.h.written

C3_Witness ==
  /\ ParsedGet
  /\ os_resolve(Resolved.segs) = <<"srv", "data.json">>
  /\ last.h.statusLine = 200
  /\ last.h.body = <<123, 125>>

C5_NothingOutsideRootRead ==
  /\ \A f \in opened : IsPrefix(ScriptDir, f)
  /\ Handling => (last.h.body # SecretBytes /\ \A f \in last.h.opened : IsPrefix(ScriptDir, f))

\* A GET of "../secret.txt", which names /secret.txt when resolved against the
\* root, has been answered.
C5_Witness ==
  /\ ParsedGet
  /\ ~last.req.path.abs
  /\ os_resolve(ScriptDir \o last.req.path.segs) = <<"secret.txt">>
  /\ last.h.written
  /\ last.h.code = 404

\* C6: started while another process holds the port, main() prints a message
\* naming the port and exits with status 1, without retrying, opening the
\* browser or serving; the other process keeps the port.
C6_PortInUseReported ==
  (pc = "exited" /\ exitAt = "bind" /\ portHolder = "other") =>
     /\ Msg("port-in-use") \in console
     /\ exitStatus = 1
     /\ browser = "notyet"
     /\ served = 0
     /\ ~listening

\* C7: on CTRL+C in the serve loop the server stops listening, prints a
\* farewell message and exits with status 0.
C7_InterruptExitsCleanly ==
  (pc = "exited" /\ exitAt = "serving") =>
     /\ ~listening
     /\ \E m \in console : m.kind = "farewell"
     /\ exitStatus = 0

\* The handler a server that has handled nothing yet ends with on this request.
Fresh(req, fault) == handle_one_request(NewHandler(req, fault, ScriptDir), req)

C9_UnreadableReturns500 ==
  (ParsedGet /\ last.req.shape = "full" /\ isfile(Resolved) /\ ~ResolvedEntry.readable) => last.h.code = 500

\* C10 (on the requests that are answered 200 when every line is printed): each
\* handled request prints exactly one log line, "[<client address>] <summary>",
\* and a print() that raises changes nothing of the response.
C10_OneLogLineAndLoggingHarmless ==
  (Handling /\ Fresh(last.req, "none").code = 200) =>
     /\ Len(last.h.log) = 1
     /\ last.h.log[1].address = last.req.client
     /\ last.h.written = Fresh(last.req, "none").written
     /\ last.h.statusLine = Fresh(last.req, "none").statusLine
     /\ last.h.headers = Fresh(last.req, "none").headers
     /\ last.h.body = Fresh(last.req, "none").body

====
